---- MODULE Spec2Model ----
(***************************************************************************)
(* Model of src/app.py: the PostgreSQL-backed project/task tracker.        *)
(*                                                                         *)
(* The data-access layer (db, init_db, get_projects, get_project_id,       *)
(* create_project, delete_project, load_tasks, save_tasks) is modelled     *)
(* statement by statement on the process-wide psycopg2 connection that     *)
(* get_conn caches: a statement opens a transaction on the connection, a   *)
(* failed statement aborts it, conn.commit() publishes the transaction's   *)
(* working copy.  The Streamlit script (sidebar, toolbar, session state)   *)
(* is modelled as one script run per user interaction.                     *)
(***************************************************************************)
EXTENDS Integers, Sequences, FiniteSets, TLC

\* ------------------------------------------------------------------ values

\* Python's None / an optional value: the empty or the one-element sequence.
None == <<>>
Some(x) == <<x>>

\* An "S.No." cell of a DataFrame: a number, or a missing value (None / NaN),
\* the "non-numeric sno" of the specification's malformed-row case.
NaN == <<>>
Num(n) == <<n>>

\* One DataFrame row with the four columns of empty_df.
DfRow(sno, task, comments, status) ==
    [sno |-> sno, task |-> task, comments |-> comments, status |-> status]

empty_df == <<>>

Names == {"A", "B"}
Sessions == {"s1", "s2"}
ConnIds == {"c1", "c2", "c3"}

\* The project id sequence (SERIAL) is capped: no INSERT INTO projects is
\* started once projects_id_seq would pass MaxPid.
MaxPid == 3

\* The DataFrames handed to save_tasks by the API-level driver.
RecordSets ==
    << empty_df,
       << DfRow(Num(2), "b", "", "Partial"), DfRow(Num(1), "a", "urgent", "Pending") >>,
       << DfRow(Num(1), "c", "", "Resolved"), DfRow(Num(1), "a", "", "Pending") >>,
       << DfRow(NaN, "d", "", "Pending") >> >>

Ops == {"init_db", "get_projects", "create_project", "delete_project",
        "load_tasks", "save_tasks"}

\* ------------------------------------------------------------ the database

EmptyDb == [projects |-> <<>>, tasks |-> <<>>]

Range(q) == {q[i] : i \in 1..Len(q)}

\* q without its i-th element.
Without(q, i) == SubSeq(q, 1, i - 1) \o SubSeq(q, i + 1, Len(q))

\* ORDER BY id: the rows of q ordered by id ascending (ids are a primary key).
RECURSIVE OrderById(_)
OrderById(q) ==
    IF q = <<>> THEN <<>>
    ELSE LET i == CHOOSE k \in 1..Len(q) : \A j \in 1..Len(q) : q[k].id <= q[j].id
         IN <<q[i]>> \o OrderById(Without(q, i))

\* ORDER BY sno: the sequences that hold exactly the rows of q, ordered by sno
\* ascending; the order of rows with equal sno is left open by SQL.
RECURSIVE OrderBySno(_)
OrderBySno(q) ==
    IF q = <<>> THEN {<<>>}
    ELSE LET Least == {k \in 1..Len(q) : \A j \in 1..Len(q) : q[k].sno <= q[j].sno}
         IN UNION {{<<q[i]>> \o r : r \in OrderBySno(Without(q, i))} : i \in Least}

\* Mutant of SelectNames: ORDER BY name instead of ORDER BY id.
SelectNames_ByName(d) ==
    LET Has(n) == \E r \in Range(d.projects) : r.name = n
    IN (IF Has("A") THEN <<"A">> ELSE <<>>) \o (IF Has("B") THEN <<"B">> ELSE <<>>)

\* SELECT name FROM projects ORDER BY id
SelectNames(d) ==
    LET q == OrderById(d.projects)
    IN [i \in 1..Len(q) |-> q[i].name]

\* Mutant of SelectId: a missing row yields an id instead of None.
SelectId_NoSentinel(d, name) ==
    LET ids == {r.id : r \in {x \in Range(d.projects) : x.name = name}}
    IN IF ids = {} THEN Some(0) ELSE Some(CHOOSE i \in ids : TRUE)

\* SELECT id FROM projects WHERE name = %s; fetchone(); row[0] if row else None
SelectId(d, name) ==
    LET ids == {r.id : r \in {x \in Range(d.projects) : x.name = name}}
    IN IF ids = {} THEN None ELSE Some(CHOOSE i \in ids : TRUE)

\* Mutant of UniqueViolation: the name column without its UNIQUE constraint.
UniqueViolation_Off(d, name) == FALSE

\* name TEXT UNIQUE NOT NULL: the INSERT is rejected when the name exists.
UniqueViolation(d, name) == \E r \in Range(d.projects) : r.name = name

\* INSERT INTO projects (name) VALUES (%s), id drawn from the sequence.
InsertProjectRow(d, id, name) ==
    [d EXCEPT !.projects = Append(@, [id |-> id, name |-> name])]

\* Mutant of DeleteProjectRows: the foreign key without ON DELETE CASCADE
\* (and unchecked): the tasks rows stay.
DeleteProjectRows_NoCascade(d, name) ==
    LET KeepP(r) == r.name # name
    IN [d EXCEPT !.projects = SelectSeq(@, KeepP)]

\* DELETE FROM projects WHERE name = %s, with ON DELETE CASCADE on tasks.
DeleteProjectRows(d, name) ==
    LET ids == {r.id : r \in {x \in Range(d.projects) : x.name = name}}
        KeepP(r) == r.name # name
        KeepT(t) == t.project_id \notin ids
    IN [projects |-> SelectSeq(d.projects, KeepP), tasks |-> SelectSeq(d.tasks, KeepT)]

\* Mutant of DeleteTaskRows: the DELETE removes nothing.
DeleteTaskRows_Nothing(d, pid) == d

\* DELETE FROM tasks WHERE project_id = %s
DeleteTaskRows(d, pid) ==
    LET KeepT(t) == t.project_id # pid
    IN [d EXCEPT !.tasks = SelectSeq(@, KeepT)]

\* project_id INTEGER REFERENCES projects(id): the INSERT is rejected when no
\* project row has the id.
ForeignKeyViolation(d, pid) == \A r \in Range(d.projects) : r.id # pid

\* INSERT INTO tasks (project_id, sno, task, comments, status) of the rows.
InsertTaskRows(d, rows) == [d EXCEPT !.tasks = @ \o rows]

\* The tasks rows of one project, in heap order.
TaskRows(d, pid) ==
    LET Mine(t) == t.project_id = pid
    IN SelectSeq(d.tasks, Mine)

\* Mutant of SelectTasks: the SELECT without ORDER BY sno.
SelectTasks_Unordered(d, pid) == {TaskRows(d, pid)}

\* SELECT sno, task, comments, status FROM tasks WHERE project_id = %s ORDER BY sno
SelectTasks(d, pid) == OrderBySno(TaskRows(d, pid))

\* ------------------------------------------------- DataFrame <-> SQL rows

\* int(row["S.No."]) raises on a missing value.
IntRaises(df) == \E i \in 1..Len(df) : df[i].sno = NaN

\* save_tasks' row tuples: (pid, int(S.No.), str(Task), str(Comments), str(Status))
ToSqlRows(pid, df) ==
    [i \in 1..Len(df) |->
        [project_id |-> pid, sno |-> df[i].sno[1], task |-> df[i].task,
         comments |-> df[i].comments, status |-> df[i].status]]

\* load_tasks' DataFrame of the fetched rows; no rows give empty_df().
ToDataFrame(rows) ==
    IF Len(rows) = 0 THEN empty_df
    ELSE [i \in 1..Len(rows) |->
            DfRow(Num(rows[i].sno), rows[i].task, rows[i].comments, rows[i].status)]

\* ------------------------------------------------------------------- state

VARIABLES
    committed,   \* the database's committed tables
    seq,         \* projects_id_seq: the last id handed out
    cached,      \* st.cache_resource's entry for get_conn: None or Some(conn)
    conns,       \* per connection object: transaction status and working copy
    sess,        \* per session: the data-access call it is in and its locals
    lastSave,    \* per session: its latest save_tasks call that found its project
    lastSaver,   \* the session whose save_tasks returned most recently
    ui           \* the Streamlit session: script position, widgets, session_state

vars == <<committed, seq, cached, conns, sess, lastSave, lastSaver, ui>>

ClosedConn == [st |-> "closed", work |-> EmptyDb]
IdleConn == [st |-> "idle", work |-> EmptyDb]
AbortedConn == [st |-> "aborted", work |-> EmptyDb]
\* A dropped connection. "lost": no transaction was begun on it and the
\* client has not noticed. "dead": a transaction was begun on it, or a
\* statement failed on it and psycopg2 marked it closed.
LostConn == [st |-> "lost", work |-> EmptyDb]
DeadConn == [st |-> "dead", work |-> EmptyDb]

IdleSess ==
    [pc |-> "idle", op |-> "none", name |-> "", df |-> empty_df, pid |-> None,
     conn |-> None, out |-> "ok", res |-> <<>>, attempts |-> 0, justSaved |-> FALSE,
     alone |-> TRUE, step |-> "", row |-> 0]

\* A statement can run on a connection that is open to the server and whose
\* transaction has not failed.
Healthy(cn) == cn.st \in {"idle", "open"}

\* What a statement on the connection sees: its transaction's working copy.
View(cn) == IF cn.st = "open" THEN cn.work ELSE committed

\* A statement's effect on its connection: the transaction now holds d.
Wrote(c, d) == [conns EXCEPT ![c] = [st |-> "open", work |-> d]]

\* A statement the server rejects aborts the connection's transaction.
Rejected(c) == [conns EXCEPT ![c] = AbortedConn]

\* Connection objects nothing refers to any more are closed (the server rolls
\* back whatever they held).
Release(cs, cch, ss) ==
    [c \in ConnIds |->
        IF cch = Some(c) \/ (\E t \in Sessions : ss[t].conn = Some(c))
        THEN cs[c] ELSE ClosedConn]

\* The Streamlit session before its first script run: no widget has a value,
\* st.session_state is empty.
InitUi ==
    [pc |-> "idle", fresh |-> FALSE, projects |-> <<>>, selected |-> None,
     ss |-> [n \in Names |-> None], selected_rows |-> {}, proj_select |-> None,
     checked |-> {}, created |-> None, dropped |-> {}]

Init ==
    /\ committed = EmptyDb
    /\ seq = 0
    /\ cached = Some("c1")
    /\ conns = [c \in ConnIds |-> IF c = "c1" THEN IdleConn ELSE ClosedConn]
    /\ sess = [s \in Sessions |-> IdleSess]
    /\ lastSave = [s \in Sessions |-> None]
    /\ lastSaver = None
    /\ ui = InitUi

\* ------------------------------------------------------ the connection

\* A connection object no one refers to: the one psycopg2.connect returns.
Fresh(cns) == CHOOSE c \in ConnIds : cns[c].st = "closed"

\* get_conn under @st.cache_resource: the cached connection, or on a cache miss
\* one psycopg2.connect call, which succeeds (ok) or raises and caches nothing.
get_conn(cch, cns, ok) ==
    IF cch # None
    THEN [raised |-> FALSE, conn |-> cch, cached |-> cch, conns |-> cns, attempts |-> 0]
    ELSE IF ok
    THEN LET c == Fresh(cns)
         IN [raised |-> FALSE, conn |-> Some(c), cached |-> Some(c),
             conns |-> [cns EXCEPT ![c] = IdleConn], attempts |-> 1]
    ELSE [raised |-> TRUE, conn |-> None, cached |-> None, conns |-> cns, attempts |-> 1]

\* conn.cursor().execute("SELECT 1"): the probe opens a transaction on an idle
\* connection.
Probe(cn) == IF cn.st = "idle" THEN [st |-> "open", work |-> committed] ELSE cn

\* Mutant of ProbeRaises: the probe never notices a lost connection.
ProbeRaises_Never(cn) == FALSE

\* The probe raises on a connection that is lost or whose transaction failed.
ProbeRaises(cn) == ~Healthy(cn)

\* A statement that fails on a lost connection leaves it marked closed.
FailedConn(cn) == IF cn.st = "lost" THEN DeadConn ELSE cn

Failed(c) == [conns EXCEPT ![c] = FailedConn(@)]

\* conn.commit(): publishes an open transaction; on a failed transaction the
\* server answers COMMIT with ROLLBACK and psycopg2 returns normally; with no
\* transaction begun (idle, lost) nothing is sent and it returns.
CommitRaises(cn) == cn.st \in {"dead", "closed"}
CommitTables(cn) == IF cn.st = "open" THEN cn.work ELSE committed
CommitConn(cn) == IF CommitRaises(cn) \/ cn.st = "lost" THEN cn ELSE IdleConn

\* conn.rollback(), as the connection's context manager issues it on an error.
RollbackConn(cn) == IF cn.st \in {"dead", "lost", "closed"} THEN cn ELSE IdleConn

\* ------------------------------------------------------------ the calls

Calls ==
    {[op |-> o, name |-> "", df |-> empty_df] : o \in {"init_db", "get_projects"}}
    \cup {[op |-> o, name |-> n, df |-> empty_df] :
            o \in {"create_project", "delete_project", "load_tasks"}, n \in Names}
    \cup {[op |-> "save_tasks", name |-> n, df |-> RecordSets[i]] :
            n \in Names, i \in 1..Len(RecordSets)}

FirstPc(op) == IF op \in {"load_tasks", "save_tasks"} THEN "gpi_db" ELSE "db"

AfterDb(op, pc) ==
    IF pc = "gpi_db" THEN "gpi_select"
    ELSE CASE op = "init_db" -> "create_tables"
           [] op = "get_projects" -> "select_projects"
           [] op = "create_project" -> "insert_project"
           [] op = "delete_project" -> "delete_project"
           [] op = "load_tasks" -> "select_tasks"
           [] op = "save_tasks" -> "delete_tasks"

\* The INSERTs into projects that running calls may still issue.
PendingCreates ==
    Cardinality({t \in Sessions : sess[t].op = "create_project" /\ sess[t].pc # "idle"})

Started(c) ==
    [pc |-> FirstPc(c.op), op |-> c.op, name |-> c.name, df |-> c.df, pid |-> None,
     conn |-> None, out |-> "running", res |-> <<>>, attempts |-> 0, justSaved |-> FALSE,
     alone |-> TRUE, step |-> "", row |-> 0]

\* A session enters a data-access function. alone records whether the call
\* runs with no other session inside a call, from its entry to its return.
Enter(s, c) ==
    /\ sess[s].pc = "idle"
    /\ c.op = "create_project" => seq + PendingCreates < MaxPid
    /\ sess' = [t \in Sessions |->
                  IF t = s
                  THEN [Started(c) EXCEPT
                          !.justSaved = (c.op = "load_tasks" /\ sess[s].justSaved),
                          !.alone = \A u \in Sessions \ {s} : sess[u].pc = "idle"]
                  ELSE [sess[t] EXCEPT !.alone = @ /\ sess[t].pc = "idle"]]
    /\ UNCHANGED <<committed, seq, cached, conns, lastSave, lastSaver>>

Call(s) == (\E c \in Calls : Enter(s, c)) /\ UNCHANGED ui

\* The function returns (out = "ok") or raises (out = "raised"); its locals go.
ReturnFrom(s, out, res, cch, cns, attempts) ==
    /\ sess' = [sess EXCEPT ![s] =
                  [@ EXCEPT !.pc = "idle", !.df = empty_df, !.pid = None, !.conn = None,
                            !.out = out, !.res = res, !.attempts = attempts,
                            !.alone = TRUE, !.step = "", !.row = 0,
                            !.justSaved = (@ /\ out = "ok") \/
                                          (sess[s].op = "save_tasks" /\ sess[s].pid # None
                                             /\ out = "ok")]]
    /\ cached' = cch
    /\ conns' = Release(cns, cch, sess')
    /\ IF sess[s].op = "save_tasks" /\ sess[s].pid # None
       THEN /\ lastSave' = [lastSave EXCEPT ![s] =
                              Some([@[1] EXCEPT !.out = out, !.alone = sess[s].alone])]
            /\ lastSaver' = IF out = "ok" THEN Some(s) ELSE lastSaver
       ELSE UNCHANGED <<lastSave, lastSaver>>

Return(s, out, res, cch, cns) == ReturnFrom(s, out, res, cch, cns, 0)

\* The function moves on to its next statement.
Goto(s, pc, cns) ==
    /\ sess' = [sess EXCEPT ![s].pc = pc, ![s].attempts = 0,
                             ![s].row = IF pc = "insert_tasks" THEN 1 ELSE 0]
    /\ cached' = cached
    /\ conns' = Release(cns, cached, sess')
    /\ UNCHANGED <<lastSave, lastSaver>>

HeldConn(s) == sess[s].conn[1]

\* db(), lines 63-71, as called by every data-access function, statement
\* by statement: other sessions run between its statements. attempts counts
\* the psycopg2.connect calls the db() call made.

\* conn = get_conn(), line 65.
DbGetConn(s) ==
    /\ sess[s].pc \in {"db", "gpi_db"}
    /\ sess[s].step = ""
    /\ \E ok \in BOOLEAN :
         LET g == get_conn(cached, conns, ok)
         IN IF g.raised
            THEN ReturnFrom(s, "raised", <<>>, g.cached, g.conns, g.attempts)
            ELSE /\ sess' = [sess EXCEPT ![s].step = "probe",
                                         ![s].conn = g.conn,
                                         ![s].attempts = g.attempts]
                 /\ cached' = g.cached
                 /\ conns' = Release(g.conns, g.cached, sess')
                 /\ UNCHANGED <<lastSave, lastSaver>>
    /\ UNCHANGED <<committed, seq, ui>>

\* The probe, lines 66-68, and "return conn", line 71, when it passes.
DbProbe(s) ==
    /\ sess[s].pc \in {"db", "gpi_db"}
    /\ sess[s].step = "probe"
    /\ LET c == HeldConn(s)
           cn == conns[c]
       IN IF ProbeRaises(cn)
          THEN /\ sess' = [sess EXCEPT ![s].step = "clear"]
               /\ conns' = Failed(c)
          ELSE /\ sess' = [sess EXCEPT ![s].pc = AfterDb(sess[s].op, sess[s].pc),
                                       ![s].step = ""]
               /\ conns' = [conns EXCEPT ![c] = Probe(cn)]
    /\ UNCHANGED <<committed, seq, cached, lastSave, lastSaver, ui>>

\* st.cache_resource.clear(), line 69: whatever connection is cached now.
\* db()'s local still refers to the connection whose probe failed.
DbClear(s) ==
    /\ sess[s].pc \in {"db", "gpi_db"}
    /\ sess[s].step = "clear"
    /\ sess' = [sess EXCEPT ![s].step = "reconnect"]
    /\ cached' = None
    /\ conns' = Release(conns, None, sess')
    /\ UNCHANGED <<committed, seq, lastSave, lastSaver, ui>>

\* conn = get_conn(), line 70, and "return conn", line 71: the local is
\* rebound, which lets go of the old connection, and the new one is returned
\* without a probe.
DbReconnect(s) ==
    /\ sess[s].pc \in {"db", "gpi_db"}
    /\ sess[s].step = "reconnect"
    /\ \E ok \in BOOLEAN :
         LET rebound == [sess EXCEPT ![s].conn = None]
             g == get_conn(cached, Release(conns, cached, rebound), ok)
         IN IF g.raised
            THEN ReturnFrom(s, "raised", <<>>, g.cached, g.conns,
                            sess[s].attempts + g.attempts)
            ELSE /\ sess' = [sess EXCEPT ![s].pc = AfterDb(sess[s].op, sess[s].pc),
                                         ![s].step = "",
                                         ![s].conn = g.conn,
                                         ![s].attempts = @ + g.attempts]
                 /\ cached' = g.cached
                 /\ conns' = Release(g.conns, g.cached, sess')
                 /\ UNCHANGED <<lastSave, lastSaver>>
    /\ UNCHANGED <<committed, seq, ui>>

\* get_project_id, lines 101-105, and its callers' "if pid is None" (lines
\* 121-123, 140-142): load_tasks returns empty_df(), save_tasks returns.
SelectProjectId(s) ==
    /\ sess[s].pc = "gpi_select"
    /\ LET c == HeldConn(s)
           cn == conns[c]
           pid == SelectId(View(cn), sess[s].name)
       IN IF ~Healthy(cn)
          THEN Return(s, "raised", <<>>, cached, Failed(c))
          ELSE IF pid = None
          THEN Return(s, "ok", empty_df, cached, Wrote(c, View(cn)))
          ELSE /\ sess' = [sess EXCEPT ![s].pc = "db", ![s].pid = pid, ![s].conn = None]
               /\ cached' = cached
               /\ conns' = Release(Wrote(c, View(cn)), cached, sess')
               /\ lastSave' =
                    IF sess[s].op = "save_tasks"
                    THEN [lastSave EXCEPT ![s] =
                            Some([pid |-> pid[1], df |-> sess[s].df, out |-> "running",
                                  alone |-> sess[s].alone])]
                    ELSE lastSave
               /\ UNCHANGED lastSaver
    /\ UNCHANGED <<committed, seq, ui>>

\* get_projects, lines 96-99.
SelectProjects(s) ==
    /\ sess[s].pc = "select_projects"
    /\ LET c == HeldConn(s)
           cn == conns[c]
       IN IF ~Healthy(cn)
          THEN Return(s, "raised", <<>>, cached, Failed(c))
          ELSE Return(s, "ok", SelectNames(View(cn)), cached, Wrote(c, View(cn)))
    /\ UNCHANGED <<committed, seq, ui>>

\* create_project's INSERT, line 110. nextval is consumed even when the row
\* is rejected.
InsertProject(s) ==
    /\ sess[s].pc = "insert_project"
    /\ LET c == HeldConn(s)
           cn == conns[c]
       IN IF ~Healthy(cn)
          THEN Return(s, "raised", <<>>, cached, Failed(c)) /\ seq' = seq
          ELSE /\ seq' = seq + 1
               /\ IF UniqueViolation(View(cn), sess[s].name)
                  THEN Return(s, "raised", <<>>, cached, Rejected(c))
                  ELSE Goto(s, "commit",
                            Wrote(c, InsertProjectRow(View(cn), seq + 1, sess[s].name)))
    /\ UNCHANGED <<committed, ui>>

\* delete_project's DELETE, line 116.
DeleteProject(s) ==
    /\ sess[s].pc = "delete_project"
    /\ LET c == HeldConn(s)
           cn == conns[c]
       IN IF ~Healthy(cn)
          THEN Return(s, "raised", <<>>, cached, Failed(c))
          ELSE Goto(s, "commit", Wrote(c, DeleteProjectRows(View(cn), sess[s].name)))
    /\ UNCHANGED <<committed, seq, ui>>

\* load_tasks' SELECT and DataFrame, lines 124-137.
SelectTaskRows(s) ==
    /\ sess[s].pc = "select_tasks"
    /\ LET c == HeldConn(s)
           cn == conns[c]
       IN IF ~Healthy(cn)
          THEN Return(s, "raised", <<>>, cached, Failed(c))
          ELSE \E rows \in SelectTasks(View(cn), sess[s].pid[1]) :
                  Return(s, "ok", ToDataFrame(rows), cached, Wrote(c, View(cn)))
    /\ UNCHANGED <<committed, seq, ui>>

\* save_tasks' DELETE, line 145, and "if not df.empty", line 146.
DeleteTasks(s) ==
    /\ sess[s].pc = "delete_tasks"
    /\ LET c == HeldConn(s)
           cn == conns[c]
       IN IF ~Healthy(cn)
          THEN Return(s, "raised", <<>>, cached, Failed(c))
          ELSE Goto(s, IF sess[s].df = empty_df THEN "commit" ELSE "insert_tasks",
                    Wrote(c, DeleteTaskRows(View(cn), sess[s].pid[1])))
    /\ UNCHANGED <<committed, seq, ui>>

\* save_tasks' row list and executemany, lines 147-154. Building the rows
\* raises before any INSERT is sent when an S.No. is not a number;
\* executemany then sends one INSERT per row, and other sessions' statements
\* run between two of them.
InsertTasks(s) ==
    /\ sess[s].pc = "insert_tasks"
    /\ LET c == HeldConn(s)
           cn == conns[c]
           pid == sess[s].pid[1]
           i == sess[s].row
       IN IF IntRaises(sess[s].df)
          THEN Return(s, "raised", <<>>, cached, conns)
          ELSE IF ~Healthy(cn)
          THEN Return(s, "raised", <<>>, cached, Failed(c))
          ELSE IF ForeignKeyViolation(View(cn), pid)
          THEN Return(s, "raised", <<>>, cached, Rejected(c))
          ELSE IF i = Len(sess[s].df)
          THEN Goto(s, "commit",
                    Wrote(c, InsertTaskRows(View(cn), <<ToSqlRows(pid, sess[s].df)[i]>>)))
          ELSE /\ sess' = [sess EXCEPT ![s].row = i + 1]
               /\ cached' = cached
               /\ conns' = Wrote(c, InsertTaskRows(View(cn), <<ToSqlRows(pid, sess[s].df)[i]>>))
               /\ UNCHANGED <<lastSave, lastSaver>>
    /\ UNCHANGED <<committed, seq, ui>>

\* conn.commit(), lines 91, 111, 117, 155.
Commit(s) ==
    /\ sess[s].pc = "commit"
    /\ LET c == HeldConn(s)
           cn == conns[c]
       IN IF CommitRaises(cn)
          THEN /\ Return(s, "raised", <<>>, cached, conns)
               /\ committed' = committed
          ELSE /\ committed' = CommitTables(cn)
               /\ IF sess[s].op = "init_db"
                  THEN Goto(s, "exit", [conns EXCEPT ![c] = CommitConn(cn)])
                  ELSE Return(s, "ok", <<>>, cached, [conns EXCEPT ![c] = CommitConn(cn)])
    /\ UNCHANGED <<seq, ui>>

\* init_db's CREATE TABLE IF NOT EXISTS, lines 76-90: the tables exist. An
\* error inside "with db() as conn" rolls the connection back.
CreateTables(s) ==
    /\ sess[s].pc = "create_tables"
    /\ LET c == HeldConn(s)
           cn == conns[c]
       IN IF ~Healthy(cn)
          THEN Return(s, "raised", <<>>, cached, [conns EXCEPT ![c] = RollbackConn(FailedConn(cn))])
          ELSE Goto(s, "commit", Wrote(c, View(cn)))
    /\ UNCHANGED <<committed, seq, ui>>

\* The end of "with db() as conn", line 75: the connection's context manager
\* commits.
ExitWith(s) ==
    /\ sess[s].pc = "exit"
    /\ LET c == HeldConn(s)
           cn == conns[c]
       IN IF CommitRaises(cn)
          THEN /\ Return(s, "raised", <<>>, cached, conns)
               /\ committed' = committed
          ELSE /\ committed' = CommitTables(cn)
               /\ Return(s, "ok", <<>>, cached, [conns EXCEPT ![c] = CommitConn(cn)])
    /\ UNCHANGED <<seq, ui>>

\* The network or the server drops a connection; the server rolls back what
\* its transaction held.
Drop ==
    /\ \E c \in ConnIds :
         /\ conns[c].st \in {"idle", "open", "aborted"}
         /\ conns' = [conns EXCEPT ![c] = IF @.st = "idle" THEN LostConn ELSE DeadConn]
    /\ UNCHANGED <<committed, seq, cached, sess, lastSave, lastSaver, ui>>

Step(s) ==
    \/ DbGetConn(s)
    \/ DbProbe(s)
    \/ DbClear(s)
    \/ DbReconnect(s)
    \/ SelectProjectId(s)
    \/ SelectProjects(s)
    \/ InsertProject(s)
    \/ DeleteProject(s)
    \/ SelectTaskRows(s)
    \/ DeleteTasks(s)
    \/ InsertTasks(s)
    \/ Commit(s)
    \/ CreateTables(s)
    \/ ExitWith(s)

\* One session calls the data-access layer: the calls run one after the other.
Next ==
    \/ Call("s1")
    \/ Step("s1")
    \/ Drop

Spec == Init /\ [][Next]_vars

\* The two-session workload: project "A" exists, and both sessions save and
\* load its tasks.
InitConc ==
    /\ committed = [projects |-> <<[id |-> 1, name |-> "A"]>>, tasks |-> <<>>]
    /\ seq = 1
    /\ cached = Some("c1")
    /\ conns = [c \in ConnIds |-> IF c = "c1" THEN IdleConn ELSE ClosedConn]
    /\ sess = [s \in Sessions |-> IdleSess]
    /\ lastSave = [s \in Sessions |-> None]
    /\ lastSaver = None
    /\ ui = InitUi

ConcCalls ==
    {c \in Calls : /\ c.name = "A"
                   /\ \/ c.op = "load_tasks"
                      \/ c.op = "save_tasks" /\ c.df \in {empty_df, RecordSets[2], RecordSets[3]}}

ConcCall(s) == (\E c \in ConcCalls : Enter(s, c)) /\ UNCHANGED ui

\* Two sessions (Streamlit script threads) call the data-access layer; their
\* statements interleave on the shared connection, which stays up.
NextConc ==
    \/ \E s \in Sessions :
         \/ ConcCall(s)
         \/ DbGetConn(s)
         \/ DbProbe(s)
         \/ SelectProjectId(s)
         \/ SelectTaskRows(s)
         \/ DeleteTasks(s)
         \/ InsertTasks(s)
         \/ Commit(s)

SpecConc == InitConc /\ [][NextConc]_vars

\* --------------------------------------------------- the Streamlit script
\*
\* ui is the browser session of s1: pc is the script's position (idle between
\* two runs), ss the "df_<project>" entries of st.session_state, selected_rows
\* its "_selected_rows" entry, proj_select and checked the values of the
\* selectbox and of the checkboxes of the selected project. A run is started
\* by one widget interaction; fresh says that no widget has reported it yet,
\* and each widget call draws whether it is the one. Rows are counted from 1,
\* the DataFrame's index from 0. created and dropped are history of the
\* current run: the project its Create button made, and the rows its Delete
\* Selected dropped.

U == "s1"

\* The in-memory DataFrames are capped: Add Task is not clicked on MaxRows rows.
MaxRows == 2

\* Texts typed into "Project name", as sequences of characters.
TextInputs == { <<>>, <<" ">>, <<"A">>, <<" ", "A", " ">> }

\* str.strip(): leading and trailing whitespace removed.
RECURSIVE Strip(_)
Strip(t) ==
    IF t = <<>> THEN t
    ELSE IF Head(t) = " " THEN Strip(Tail(t))
    ELSE IF t[Len(t)] = " " THEN Strip(SubSeq(t, 1, Len(t) - 1))
    ELSE t

\* The string of a character sequence; the typed texts strip to the empty
\* string or to a one-letter name.
Text(t) == IF Len(t) = 1 THEN t[1] ELSE ""

InitDbCall == [op |-> "init_db", name |-> "", df |-> empty_df]

\* The script calls a data-access function and waits for it at pc.
CallFrom(u, pc, c) ==
    /\ Enter(U, c)
    /\ ui' = [u EXCEPT !.pc = pc, !.fresh = FALSE]

\* st.rerun(): the run ends here and the script starts again from the top,
\* with no widget touched.
Rerun(u) ==
    /\ Enter(U, InitDbCall)
    /\ ui' = [u EXCEPT !.pc = "init_db", !.fresh = FALSE]

\* The run ends: st.stop(), an uncaught exception, or the end of the script.
Finish(u) ==
    /\ ui' = [u EXCEPT !.pc = "idle", !.fresh = FALSE, !.created = None, !.dropped = {}]
    /\ UNCHANGED <<committed, seq, cached, conns, sess, lastSave, lastSaver>>

\* The script moves on to its next section.
Continue(u, pc) ==
    /\ ui' = [u EXCEPT !.pc = pc]
    /\ UNCHANGED <<committed, seq, cached, conns, sess, lastSave, lastSaver>>

Returned(pcs) == ui.pc \in pcs /\ sess[U].pc = "idle"

\* A widget interaction (or the page being opened) starts a script run from
\* the top, where line 93 calls init_db().
Interact ==
    /\ ui.pc = "idle"
    /\ sess[U].pc = "idle"
    /\ Enter(U, InitDbCall)
    /\ ui' = [ui EXCEPT !.pc = "init_db", !.fresh = TRUE]

\* init_db() returned, line 93; the sidebar calls get_projects(), line 164.
AfterInitDb ==
    /\ Returned({"init_db"})
    /\ IF sess[U].out = "raised"
       THEN Finish(ui)
       ELSE /\ Enter(U, [op |-> "get_projects", name |-> "", df |-> empty_df])
            /\ ui' = [ui EXCEPT !.pc = "get_projects"]

\* st.selectbox("Active project", projects, key="proj_select"): the stored
\* choice when it is still an option, else the first option; when the options
\* changed the widget may also fall back to the first option.
SelectBox(projects, shown, choice) ==
    IF projects = <<>> THEN {None}
    ELSE IF choice # None /\ choice[1] \in Range(projects)
    THEN IF projects = shown THEN {choice} ELSE {choice, Some(projects[1])}
    ELSE {Some(projects[1])}

\* What the user may have done in the sidebar to start this run: picked
\* another of the projects shown, pressed Create with a text typed, pressed
\* Delete, or nothing there.
SidebarInputs ==
    IF ~ui.fresh THEN {[type |-> "none", text |-> <<>>]}
    ELSE {[type |-> "none", text |-> <<>>]}
         \cup {[type |-> "select", text |-> <<n>>] :
                 n \in {m \in Range(ui.projects) : Some(m) # ui.selected}}
         \cup (IF seq < MaxPid
               THEN {[type |-> "create", text |-> x] : x \in TextInputs}
               ELSE {})
         \cup (IF ui.selected # None
               THEN {[type |-> "delete", text |-> <<>>]}
               ELSE {})

\* The sidebar, lines 164-193: the project list, the selection, and the
\* Create and Delete buttons.
Sidebar ==
    /\ Returned({"get_projects"})
    /\ IF sess[U].out = "raised"
       THEN Finish(ui)
       ELSE \E e \in SidebarInputs :
            LET projects == sess[U].res
                name == Text(Strip(e.text))
                choice == IF e.type = "select" THEN Some(e.text[1]) ELSE ui.proj_select
            IN \E sel \in SelectBox(projects, ui.projects, choice) :
                 LET u == [ui EXCEPT !.projects = projects,
                                     !.selected = sel,
                                     !.proj_select = sel,
                                     !.checked = IF sel = ui.selected THEN @ ELSE {},
                                     !.fresh = @ /\ e.type = "none"]
                 IN IF e.type = "create" /\ name # "" /\ name \notin Range(projects)
                    THEN CallFrom(u, "create_project",
                                  [op |-> "create_project", name |-> name, df |-> empty_df])
                    ELSE IF e.type = "delete" /\ sel # None
                    THEN CallFrom(u, "delete_project",
                                  [op |-> "delete_project", name |-> sel[1], df |-> empty_df])
                    ELSE Continue(u, "main")

\* create_project / delete_project returned, lines 183-185 and 191-193:
\* st.rerun().
AfterProjectWrite ==
    /\ Returned({"create_project", "delete_project"})
    /\ IF sess[U].out = "raised"
       THEN Finish(ui)
       ELSE Rerun([ui EXCEPT !.created = IF ui.pc = "create_project"
                                         THEN Some(sess[U].name) ELSE None])

\* Lines 199-209: no project stops the run; a project without a
\* "df_<project>" entry in st.session_state has its tasks loaded.
Main ==
    /\ ui.pc = "main"
    /\ IF ui.selected = None
       THEN Finish(ui)
       ELSE IF ui.ss[ui.selected[1]] = None
       THEN /\ Enter(U, [op |-> "load_tasks", name |-> ui.selected[1], df |-> empty_df])
            /\ ui' = [ui EXCEPT !.pc = "load_tasks"]
       ELSE Continue(ui, "toolbar")

\* load_tasks returned, line 209: st.session_state[state_key] = its result.
AfterLoad ==
    /\ Returned({"load_tasks"})
    /\ IF sess[U].out = "raised"
       THEN Finish(ui)
       ELSE LET key == ui.selected[1]
            IN Continue([ui EXCEPT !.ss[key] = Some(sess[U].res)], "toolbar")

\* int(df["S.No."].max()) + 1 if not df.empty else 1; max() skips missing cells.
next_sno(df) ==
    IF df = empty_df THEN 1
    ELSE LET snos == {df[i].sno[1] : i \in {j \in 1..Len(df) : df[j].sno # NaN}}
         IN (CHOOSE m \in snos : \A n \in snos : n <= m) + 1

\* df.drop(index=to_drop).reset_index(drop=True)
DropRows(df, to_drop) ==
    LET F[i \in 0..Len(df)] ==
            IF i = 0 THEN <<>>
            ELSE IF i \in to_drop THEN F[i - 1] ELSE Append(F[i - 1], df[i])
    IN F[Len(df)]

\* Mutant of Renumber: the S.No. column is left as it is.
Renumber_Off(df) == df

\* df["S.No."] = range(1, len(df) + 1)
Renumber(df) == [i \in 1..Len(df) |-> [df[i] EXCEPT !.sno = Num(i)]]

\* The toolbar button the user may have pressed to start this run.
ToolbarInputs ==
    IF ~ui.fresh THEN {"none"}
    ELSE {"none", "delete_selected", "save", "reload"}
         \cup {b \in {"add"} : Len(ui.ss[ui.selected[1]][1]) < MaxRows}

\* The toolbar, lines 214-244: Add Task, Delete Selected, Save Changes, Reload.
Toolbar ==
    /\ ui.pc = "toolbar"
    /\ \E button \in ToolbarInputs :
       LET key == ui.selected[1]
           df == ui.ss[key][1]
           to_drop == ui.selected_rows
       IN CASE button = "add" ->
                 Rerun([ui EXCEPT !.ss[key] =
                          Some(Append(df, DfRow(Num(next_sno(df)), "", "", "Pending")))])
            [] button = "delete_selected" ->
                 IF to_drop = {}
                 THEN Continue([ui EXCEPT !.fresh = FALSE], "body")
                 ELSE IF to_drop \subseteq 1..Len(df)
                 THEN Rerun([ui EXCEPT !.ss[key] = Some(Renumber(DropRows(df, to_drop))),
                                       !.selected_rows = {},
                                       !.dropped = to_drop])
                 ELSE Finish(ui)
            [] button = "save" ->
                 CallFrom(ui, "save_tasks", [op |-> "save_tasks", name |-> key, df |-> df])
            [] button = "reload" ->
                 Rerun([ui EXCEPT !.ss[key] = None])
            [] OTHER -> Continue(ui, "body")

\* save_tasks returned, lines 238-239.
AfterSave ==
    /\ Returned({"save_tasks"})
    /\ IF sess[U].out = "raised" THEN Finish(ui) ELSE Continue(ui, "body")

\* What the user may have done below the toolbar to start this run: typed
\* a text into the Task cell of a row, ticked or unticked the checkbox of a
\* row, or nothing there.
BodyInputs ==
    IF ~ui.fresh THEN {[type |-> "none", row |-> 0]}
    ELSE {[type |-> "none", row |-> 0]}
         \cup {[type |-> ty, row |-> i] :
                 ty \in {"edit", "tick"}, i \in 1..Len(ui.ss[ui.selected[1]][1])}

\* The editor and the checkboxes, lines 290-320: the editor's DataFrame goes
\* back into st.session_state; "_selected_rows" is set to the ticked rows
\* unless the DataFrame is empty.
Body ==
    /\ ui.pc = "body"
    /\ \E e \in BodyInputs :
       LET key == ui.selected[1]
           df == ui.ss[key][1]
           edited == IF e.type = "edit" THEN [df EXCEPT ![e.row].task = "t"] ELSE df
           checked == IF e.type # "tick" THEN ui.checked
                      ELSE IF e.row \in ui.checked THEN ui.checked \ {e.row}
                      ELSE ui.checked \cup {e.row}
           selected == checked \cap (1..Len(df))
       IN Finish([ui EXCEPT !.ss[key] = Some(edited),
                            !.selected_rows = IF df # empty_df THEN selected ELSE @,
                            !.checked = selected])

\* One browser session drives the script; it is the only user of the
\* connection, which stays up.
NextUI ==
    \/ Interact
    \/ AfterInitDb
    \/ Sidebar
    \/ AfterProjectWrite
    \/ Main
    \/ AfterLoad
    \/ Toolbar
    \/ AfterSave
    \/ Body
    \/ DbGetConn(U)
    \/ DbProbe(U)
    \/ SelectProjectId(U)
    \/ SelectProjects(U)
    \/ InsertProject(U)
    \/ DeleteProject(U)
    \/ SelectTaskRows(U)
    \/ DeleteTasks(U)
    \/ InsertTasks(U)
    \/ Commit(U)
    \/ CreateTables(U)
    \/ ExitWith(U)

SpecUI == Init /\ [][NextUI]_vars

\* ------------------------------------------------------------- the claims

Count(q, x) == Cardinality({i \in 1..Len(q) : q[i] = x})

\* Two sequences hold the same elements, each as often.
SameRows(q, r) ==
    /\ Len(q) = Len(r)
    /\ \A x \in Range(q) \cup Range(r) : Count(q, x) = Count(r, x)

AscendingSno(df) == \A i, j \in 1..Len(df) : i < j => df[i].sno[1] <= df[j].sno[1]

ProjectIds(d) == {d.projects[i].id : i \in 1..Len(d.projects)}

\* Session s takes the step that ends its call of op with a normal return.
Returns(s, op, pc) ==
    /\ sess[s].op = op
    /\ sess[s].pc = pc
    /\ sess'[s].pc = "idle"
    /\ sess'[s].out = "ok"

\* C1: a load_tasks that follows a returned save_tasks of the same existing
\* project returns exactly the saved records (the same rows, each as often),
\* ordered by sno ascending; after saving the empty set it returns no rows.
C1_SaveThenLoad ==
    [][\A s \in Sessions :
          (/\ Returns(s, "load_tasks", "select_tasks")
           /\ sess[s].justSaved
           /\ lastSave[s] # None
           /\ lastSave[s][1].out = "ok"
           /\ sess[s].pid = Some(lastSave[s][1].pid))
          => /\ SameRows(sess'[s].res, lastSave[s][1].df)
             /\ AscendingSno(sess'[s].res)]_vars

\* A load returned the three saved rows in an order other than the saved one.
C1_Witness ==
    /\ sess["s1"].pc = "idle"
    /\ sess["s1"].op = "load_tasks"
    /\ sess["s1"].out = "ok"
    /\ sess["s1"].justSaved
    /\ lastSave["s1"] # None
    /\ lastSave["s1"][1].df = RecordSets[2]
    /\ Len(sess["s1"].res) = Len(RecordSets[2])
    /\ sess["s1"].res # RecordSets[2]
    /\ Len(committed.projects) = Cardinality(Names)

\* C2: every committed tasks row refers to exactly one committed projects row;
\* when delete_project(name) returns, no project is named name, no task refers
\* to the project it deleted, and a load of name finds no project.
C2_Referential ==
    \A i \in 1..Len(committed.tasks) :
        Cardinality({j \in 1..Len(committed.projects) :
                        committed.projects[j].id = committed.tasks[i].project_id}) = 1

C2_DeleteStep ==
    \A s \in Sessions :
        Returns(s, "delete_project", "commit")
        => LET name == sess[s].name
               gone == {r.id : r \in {x \in Range(committed.projects) : x.name = name}}
           IN /\ \A r \in Range(committed'.projects) : r.name # name
              /\ \A r \in Range(committed'.tasks) : r.project_id \notin gone
              /\ SelectId(committed', name) = None
              /\ \A i \in 1..Len(SelectNames(committed')) : SelectNames(committed')[i] # name

C2_CascadeDelete == []C2_Referential /\ [][C2_DeleteStep]_vars

\* delete_project returned for a project whose tasks had been saved, while the
\* other project keeps its tasks.
C2_Witness ==
    /\ sess["s1"].pc = "idle"
    /\ sess["s1"].op = "delete_project"
    /\ sess["s1"].out = "ok"
    /\ lastSave["s1"] # None
    /\ lastSave["s1"][1].out = "ok"
    /\ lastSave["s1"][1].df # empty_df
    /\ lastSave["s1"][1].pid \notin ProjectIds(committed)
    /\ committed.tasks # <<>>

\* C3 (as claimed): a commit changes the task rows of a project only to the
\* records of the save_tasks call that issues the commit; the rows are never
\* left emptied or partly replaced.
C3_AtomicReplace ==
    [][\A p \in ProjectIds(committed) \cap ProjectIds(committed') :
          TaskRows(committed', p) # TaskRows(committed, p)
          => \E s \in Sessions :
                /\ sess[s].op = "save_tasks"
                /\ sess[s].pc = "commit"
                /\ sess[s].pid = Some(p)
                /\ TaskRows(committed', p) = ToSqlRows(p, sess[s].df)]_vars

\* C4: no two projects rows have the same name, in the committed table and in
\* every transaction's working copy; the INSERT of an existing name raises,
\* changes no table and leaves nothing of its transaction to commit.
C4_UniqueNames ==
    /\ \A i, j \in 1..Len(committed.projects) :
          committed.projects[i].name = committed.projects[j].name => i = j
    /\ \A c \in ConnIds : \A i, j \in 1..Len(conns[c].work.projects) :
          conns[c].work.projects[i].name = conns[c].work.projects[j].name => i = j

C4_RejectStep ==
    \A s \in Sessions :
        (/\ sess[s].pc = "insert_project"
         /\ sess'[s] # sess[s]
         /\ Healthy(conns[HeldConn(s)])
         /\ \E r \in Range(View(conns[HeldConn(s)]).projects) : r.name = sess[s].name)
        => /\ sess'[s].pc = "idle"
           /\ sess'[s].out = "raised"
           /\ committed' = committed
           /\ conns'[HeldConn(s)].st \in {"aborted", "closed"}

C4_DuplicateRejected == []C4_UniqueNames /\ [][C4_RejectStep]_vars

\* create_project raised on a name the committed table holds, and the
\* connection's transaction is aborted.
C4_Witness ==
    /\ sess["s1"].pc = "idle"
    /\ sess["s1"].op = "create_project"
    /\ sess["s1"].out = "raised"
    /\ \E r \in Range(committed.projects) : r.name = sess["s1"].name
    /\ cached # None
    /\ conns[cached[1]].st = "aborted"
    /\ Len(committed.projects) = Cardinality(Names)

\* The names of the projects rows in the order the rows were inserted.
CreationOrder(d) == [i \in 1..Len(d.projects) |-> d.projects[i].name]

\* C5: get_projects returns the names of the existing projects, each once, in
\* the order in which the projects were created.
C5_ListStep ==
    \A s \in Sessions :
        Returns(s, "get_projects", "select_projects")
        => /\ sess'[s].res = CreationOrder(committed)
           /\ \A i, j \in 1..Len(sess'[s].res) : sess'[s].res[i] = sess'[s].res[j] => i = j

C5_CreationOrder ==
    [](SelectNames(committed) = CreationOrder(committed)) /\ [][C5_ListStep]_vars

\* get_projects listed "B" before "A": "A" was deleted and created again
\* after "B".
C5_Witness ==
    /\ sess["s1"].pc = "idle"
    /\ sess["s1"].op = "get_projects"
    /\ sess["s1"].out = "ok"
    /\ sess["s1"].res = <<"B", "A">>
    /\ committed.projects = <<[id |-> 2, name |-> "B"], [id |-> 3, name |-> "A"]>>

\* C6: a load_tasks or save_tasks of a name with no projects row returns
\* without error at its "pid is None" check: the load returns empty_df, and
\* neither the committed tables nor the transaction's working copy change.
C6_MissingStep ==
    \A s \in Sessions :
        (/\ sess[s].pc = "gpi_select"
         /\ sess'[s] # sess[s]
         /\ Healthy(conns[HeldConn(s)])
         /\ \A r \in Range(View(conns[HeldConn(s)]).projects) : r.name # sess[s].name)
        => /\ sess'[s].pc = "idle"
           /\ sess'[s].out = "ok"
           /\ sess'[s].res = empty_df
           /\ committed' = committed
           /\ cached' = cached
           /\ conns'[HeldConn(s)].st = "open"
           /\ conns'[HeldConn(s)].work = View(conns[HeldConn(s)])

C6_MissingProjectNoop == [][C6_MissingStep]_vars

\* save_tasks returned normally for a name without a row while the other
\* project holds tasks.
C6_Witness ==
    /\ sess["s1"].pc = "idle"
    /\ sess["s1"].op = "save_tasks"
    /\ sess["s1"].out = "ok"
    /\ \A r \in Range(committed.projects) : r.name # sess["s1"].name
    /\ committed.tasks # <<>>
    /\ ~sess["s1"].justSaved

\* C7 (as claimed): once two sessions' save_tasks calls for the same project
\* have both returned, the project's committed task rows are the records of
\* the call that returned last.
C7_LastSaveWins ==
    \A s, t \in Sessions :
        (/\ s # t
         /\ sess[s].pc = "idle"
         /\ sess[t].pc = "idle"
         /\ lastSave[s] # None
         /\ lastSave[t] # None
         /\ lastSave[s][1].out = "ok"
         /\ lastSave[t][1].out = "ok"
         /\ lastSave[s][1].pid = lastSave[t][1].pid
         /\ lastSave[s][1].pid \in ProjectIds(committed)
         /\ lastSaver = Some(s))
        => SameRows(TaskRows(committed, lastSave[s][1].pid),
                    ToSqlRows(lastSave[s][1].pid, lastSave[s][1].df))

\* C7 (amended): when neither of the two save_tasks calls overlapped a call
\* of another session, the project's committed task rows after both returned
\* are the records of the call that returned last.
C7_LastSaveWinsAlone ==
    \A s, t \in Sessions :
        (/\ s # t
         /\ sess[s].pc = "idle"
         /\ sess[t].pc = "idle"
         /\ lastSave[s] # None
         /\ lastSave[t] # None
         /\ lastSave[s][1].out = "ok"
         /\ lastSave[t][1].out = "ok"
         /\ lastSave[s][1].alone
         /\ lastSave[t][1].alone
         /\ lastSave[s][1].pid = lastSave[t][1].pid
         /\ lastSave[s][1].pid \in ProjectIds(committed)
         /\ lastSaver = Some(s))
        => SameRows(TaskRows(committed, lastSave[s][1].pid),
                    ToSqlRows(lastSave[s][1].pid, lastSave[s][1].df))

\* Session s2 saved one record set, then session s1 saved another, neither
\* call overlapping, and the table holds s1's.
C7_Witness ==
    /\ sess["s1"].pc = "idle"
    /\ sess["s2"].pc = "idle"
    /\ lastSaver = Some("s1")
    /\ lastSave["s1"] # None
    /\ lastSave["s2"] # None
    /\ lastSave["s1"][1] = [pid |-> 1, df |-> RecordSets[3], out |-> "ok", alone |-> TRUE]
    /\ lastSave["s2"][1] = [pid |-> 1, df |-> RecordSets[2], out |-> "ok", alone |-> TRUE]
    /\ committed.tasks = ToSqlRows(1, RecordSets[3])

\* The S.No. column counts the rows: 1..N in row order.
Sequential(df) == \A i \in 1..Len(df) : df[i].sno = Num(i)

\* C9: every in-memory task set of the session has sno exactly 1..N in row
\* order, N its number of rows, and so has the task set of the selected
\* project right after Delete Selected dropped rows from it.
C9_SnoSequential ==
    /\ \A n \in Names : ui.ss[n] # None => Sequential(ui.ss[n][1])
    /\ ui.dropped # {} =>
          /\ ui.selected # None
          /\ ui.ss[ui.selected[1]] # None
          /\ Sequential(ui.ss[ui.selected[1]][1])

\* Delete Selected dropped the first of two rows; the row left, the one whose
\* Task was edited, now has S.No. 1.
C9_Witness ==
    /\ ui.dropped = {1}
    /\ ui.ss["A"] = Some(<< DfRow(Num(1), "t", "", "Pending") >>)

\* C10: in the run that follows the creation of a project, the in-memory
\* task set the toolbar works on for that project is empty, as load_tasks of
\* a new project is.
C10_NewProjectStartsEmpty ==
    (/\ ui.pc = "toolbar"
     /\ ui.created # None
     /\ ui.created = ui.selected)
    => ui.ss[ui.selected[1]] = Some(empty_df)

\* C8: a db() call takes the cached connection without connecting and
\* probes it; when the probe passes it returns that connection and connects
\* nothing; when the probe fails it clears the cache and then makes exactly
\* one connect, whose connection is cached and returned live, or whose error
\* is raised with nothing cached and no further connect.
C8_DbStep ==
    \A s \in Sessions :
        (sess[s].pc \in {"db", "gpi_db"} /\ sess'[s] # sess[s])
        => CASE sess[s].step = "" ->
                  cached # None =>
                      /\ sess'[s].step = "probe"
                      /\ sess'[s].conn = cached
                      /\ sess'[s].attempts = 0
                      /\ cached' = cached
             [] sess[s].step = "probe" ->
                  IF Healthy(conns[sess[s].conn[1]])
                  THEN /\ sess'[s].pc \notin {"db", "gpi_db", "idle"}
                       /\ sess'[s].conn = sess[s].conn
                       /\ sess'[s].attempts = sess[s].attempts
                       /\ conns'[sess[s].conn[1]].st = "open"
                       /\ cached' = cached
                  ELSE sess'[s].step = "clear"
             [] sess[s].step = "clear" ->
                  /\ sess'[s].step = "reconnect"
                  /\ cached' = None
             [] sess[s].step = "reconnect" ->
                  /\ sess'[s].attempts = sess[s].attempts + 1
                  /\ \/ /\ sess'[s].pc \notin {"db", "gpi_db", "idle"}
                        /\ cached' # None
                        /\ sess'[s].conn = cached'
                        /\ conns'[cached'[1]] = IdleConn
                     \/ /\ sess'[s].pc = "idle"
                        /\ sess'[s].out = "raised"
                        /\ cached' = None

C8_OneShotReconnect == [][C8_DbStep]_vars

\* A db() call replaced a dropped connection: one connect, and the session
\* holds the connection now cached.
C8_Witness ==
    /\ sess["s1"].attempts = 1
    /\ sess["s1"].pc \notin {"db", "gpi_db", "idle"}
    /\ cached # None
    /\ sess["s1"].conn = cached
    /\ conns[cached[1]].st = "idle"
    /\ committed.tasks # <<>>

====
